---- MODULE Spec2Model ----
(***************************************************************************)
(* geolius: IP geolocation service over the MaxMind GeoLite2 databases.    *)
(*                                                                         *)
(* The module models                                                       *)
(*   - the address validator (ip_validator.py, models.py), with texts as   *)
(*     sequences of one-character strings,                                 *)
(*   - GeolocationService (geolocation_service.py): the two lazily opened  *)
(*     readers, a lookup split at its only await (the city query on the    *)
(*     executor), the batch call and close(),                              *)
(*   - the route handlers (routes.py) and the application's exception      *)
(*     handlers (main.py).                                                 *)
(* Specifications:                                                         *)
(*   Spec              one service object, calls made one after another    *)
(*   SpecRoutes        HTTP requests, one service object per request       *)
(*   SpecValidator     validate_ip_address, called on its own              *)
(*   SpecBatchRequest  POST /ip/batch up to the dispatch of its lookups    *)
(*   SpecParse         _parse_city_response, called on its own             *)
(***************************************************************************)
EXTENDS Integers, Sequences, FiniteSets, TLC

\* ------------------------------------------------------------------ bounds
\* longest batch the route specification dispatches
MaxBatch == 2
\* close() calls made on the one service object of Spec
MaxCloses == 2
\* longest free text (over TextAlphabet) given to the validator
MaxTextLen == 3
\* most subdivisions in a city record given to _parse_city_response
MaxSubdivisions == 2
\* longest request body (a list of equal addresses) given to POST /ip/batch
\* is MAX_BATCH_LENGTH + MaxOverLength
MaxOverLength == 1

\* ------------------------------------------------------- program constants
\* BatchIpRequest.ip_addresses: Field(min_length=1, max_length=100)
MIN_BATCH_LENGTH == 1
MAX_BATCH_LENGTH == 100
\* IpGeolocationResponse.country_code: Field(min_length=2, max_length=2)
COUNTRY_CODE_LENGTH == 2
\* starlette.status
HTTP_200_OK == 200
HTTP_400_BAD_REQUEST == 400
HTTP_404_NOT_FOUND == 404
HTTP_422_UNPROCESSABLE_ENTITY == 422
HTTP_500_INTERNAL_SERVER_ERROR == 500
HTTP_503_SERVICE_UNAVAILABLE == 503

\* Optional values: None, or Some(v)
None == <<>>
Some(v) == <<v>>
Get(o) == o[1]

\* ---------------------------------------------------------------- texts
\* A text is a sequence of one-character strings.
DigitChars == <<"0", "1", "2", "3", "4", "5", "6", "7", "8", "9">>
HexChars == DigitChars \o <<"a", "b", "c", "d", "e", "f">>
UpperHexChars == <<"A", "B", "C", "D", "E", "F">>

Range(s) == {s[i] : i \in DOMAIN s}

IsDigit(c) == c \in Range(DigitChars)
IsHexDigit(c) == c \in Range(HexChars) \cup Range(UpperHexChars)

DigitVal(c) == (CHOOSE i \in DOMAIN DigitChars : DigitChars[i] = c) - 1

HexVal(c) ==
    IF c \in Range(HexChars)
    THEN (CHOOSE i \in DOMAIN HexChars : HexChars[i] = c) - 1
    ELSE (CHOOSE i \in DOMAIN UpperHexChars : UpperHexChars[i] = c) + 9

\* int(text, base) for a text of digits of that base: the value of its first
\* i characters
RECURSIVE IntPrefix(_, _, _)
IntPrefix(p, base, i) ==
    IF i = 0 THEN 0
    ELSE IntPrefix(p, base, i - 1) * base
         + (IF base = 10 THEN DigitVal(p[i]) ELSE HexVal(p[i]))

IntOf(p, base) == IntPrefix(p, base, Len(p))

\* str.split(sep): the parts of s between the occurrences of sep, which are
\* at the positions at
SplitAt(s, at) ==
    LET n == Cardinality(at)
        Pos(j) == IF j = 0 THEN 0
                  ELSE IF j = n + 1 THEN Len(s) + 1
                  ELSE CHOOSE q \in at : Cardinality({r \in at : r < q}) = j - 1
    IN [j \in 1..(n + 1) |-> SubSeq(s, Pos(j - 1) + 1, Pos(j) - 1)]

Split(s, sep) ==
    CHOOSE parts \in {SplitAt(s, at) : at \in {{i \in DOMAIN s : s[i] = sep}}} : TRUE

\* sep.join(parts): the parts from the i-th on
RECURSIVE JoinFrom(_, _, _)
JoinFrom(parts, sep, i) ==
    IF i > Len(parts) THEN <<>>
    ELSE (IF i > 1 THEN <<sep>> ELSE <<>>) \o parts[i] \o JoinFrom(parts, sep, i + 1)

Join(parts, sep) == JoinFrom(parts, sep, 1)

\* str(n) for n >= 0, in the given base
RECURSIVE NatText(_, _)
NatText(n, base) ==
    IF n < base THEN <<HexChars[n + 1]>>
    ELSE NatText(n \div base, base) \o <<HexChars[(n % base) + 1]>>

\* ------------------------------------------------------------- addresses
\* ipaddress.IPv4Address._parse_octet
OctetOk(p) ==
    /\ Len(p) >= 1
    /\ \A i \in DOMAIN p : IsDigit(p[i])
    /\ Len(p) <= 3
    /\ ~(Len(p) > 1 /\ p[1] = "0")
    /\ IntOf(p, 10) <= 255

\* ipaddress.IPv4Address(text): four octets separated by dots
IPv4Ok(s) ==
    \E parts \in {Split(s, ".")} :
        Len(parts) = 4 /\ \A i \in 1..4 : OctetOk(parts[i])

IPv4Words(s) ==
    CHOOSE w \in {<<IntOf(parts[1], 10), IntOf(parts[2], 10), IntOf(parts[3], 10),
                    IntOf(parts[4], 10)>> : parts \in {Split(s, ".")}} : TRUE

\* ipaddress.IPv6Address._parse_hextet
HextetOk(p) ==
    /\ \A i \in DOMAIN p : IsHexDigit(p[i])
    /\ Len(p) <= 4
    /\ Len(p) >= 1

\* The colon-separated parts raw of an IPv6 text as (empty, ok, val) records;
\* a dotted last part is an embedded IPv4 address and stands for two hextets.
IPv6PartsOf(raw) ==
    LET last == raw[Len(raw)]
        One(p) == [empty |-> Len(p) = 0, ok |-> HextetOk(p),
                   val |-> IF HextetOk(p) THEN IntOf(p, 16) ELSE 0]
        plain == [i \in DOMAIN raw |-> One(raw[i])]
    IN IF \E i \in DOMAIN last : last[i] = "."
       THEN LET w == IF IPv4Ok(last) THEN IPv4Words(last) ELSE <<0, 0, 0, 0>>
            IN SubSeq(plain, 1, Len(raw) - 1)
               \o << [empty |-> FALSE, ok |-> IPv4Ok(last), val |-> w[1] * 256 + w[2]],
                     [empty |-> FALSE, ok |-> IPv4Ok(last), val |-> w[3] * 256 + w[4]] >>
       ELSE plain

\* ipaddress.IPv6Address._ip_int_from_string: where the '::' is, and how many
\* hextets stand before (hi) and after (lo) it; rawLen is the number of parts
\* the text was split into
IPv6ShapeOf(parts, rawLen) ==
    LET n == Len(parts)
        inner == {i \in 2..(n - 1) : parts[i].empty}
        skip == IF inner = {} THEN 0 ELSE CHOOSE i \in inner : TRUE
        hi0 == skip - 1
        lo0 == n - skip
        hi == IF parts[1].empty THEN hi0 - 1 ELSE hi0
        lo == IF parts[n].empty THEN lo0 - 1 ELSE lo0
    IN IF rawLen < 3 \/ n > 9 \/ Cardinality(inner) > 1
       THEN [ok |-> FALSE, hi |-> 0, lo |-> 0]
       ELSE IF inner # {}
       THEN [ok |-> /\ (parts[1].empty => hi = 0)
                    /\ (parts[n].empty => lo = 0)
                    /\ 8 - (hi + lo) >= 1
                    /\ \A i \in 1..hi : parts[i].ok
                    /\ \A i \in (n - lo + 1)..n : parts[i].ok,
             hi |-> hi, lo |-> lo]
       ELSE [ok |-> n = 8 /\ \A i \in 1..n : parts[i].ok, hi |-> 8, lo |-> 0]

IPv6WordsOf(parts, sh) ==
    LET n == Len(parts)
    IN [i \in 1..8 |->
          IF i <= sh.hi THEN parts[i].val
          ELSE IF i > 8 - sh.lo THEN parts[n - (8 - i)].val
          ELSE 0]

IPv6Ok(s) ==
    \E raw \in {Split(s, ":")} :
        \E parts \in {IPv6PartsOf(raw)} : IPv6ShapeOf(parts, Len(raw)).ok

IPv6Words(s) ==
    CHOOSE w \in {IPv6WordsOf(d[1], IPv6ShapeOf(d[1], d[2])) :
                    d \in {<<IPv6PartsOf(raw), Len(raw)>> : raw \in {Split(s, ":")}}} : TRUE

\* An Address is [v |-> 4, w |-> four octets] or [v |-> 6, w |-> eight hextets].
\* pydantic IPvAnyAddress: IPv4Address(text), else IPv6Address(text), else the
\* value is rejected.
IsIpText(s) == IPv4Ok(s) \/ IPv6Ok(s)

ParseIp(s) ==
    IF IPv4Ok(s) THEN [v |-> 4, w |-> IPv4Words(s)]
    ELSE [v |-> 6, w |-> IPv6Words(s)]

\* ipaddress.IPv6Address._compress_hextets: the first longest run of two or
\* more zero hextets, as <<start, length>> (length 0: none)
BestZeroRun(w) ==
    LET RunAt(i) ==
            IF w[i] # 0 \/ (i > 1 /\ w[i - 1] = 0) THEN 0
            ELSE (CHOOSE j \in i..9 : (j = 9 \/ w[j] # 0)
                                      /\ \A k \in i..(j - 1) : w[k] = 0) - i
        best == CHOOSE i \in 1..8 :
                    /\ \A j \in 1..8 : RunAt(j) <= RunAt(i)
                    /\ \A j \in 1..(i - 1) : RunAt(j) < RunAt(i)
    IN IF RunAt(best) > 1 THEN <<best, RunAt(best)>> ELSE <<0, 0>>

\* str(address): the canonical textual form
Str(a) ==
    IF a.v = 4
    THEN Join([i \in 1..4 |-> NatText(a.w[i], 10)], ".")
    ELSE LET run == BestZeroRun(a.w)
             hex == [i \in 1..8 |-> NatText(a.w[i], 16)]
             stop == run[1] + run[2]
         IN IF run[2] = 0 THEN Join(hex, ":")
            ELSE Join((IF run[1] = 1 THEN << <<>> >> ELSE <<>>)
                      \o SubSeq(hex, 1, run[1] - 1)
                      \o << <<>> >>
                      \o SubSeq(hex, stop, 8)
                      \o (IF stop = 9 THEN << <<>> >> ELSE <<>>), ":")

\* the text as one string
RECURSIVE TextStr(_)
TextStr(t) == IF Len(t) = 0 THEN "" ELSE t[1] \o TextStr(Tail(t))

\* ------------------------------------------------------------ exceptions
\* An exception is its class, its status_code attribute (ExternalApiError
\* only) and its message.
Exc(type, status_code, msg) == [type |-> type, status_code |-> status_code, msg |-> msg]

\* exceptions.py: ExternalApiError(message, status_code)
ExternalApiError(msg, status_code) == Exc("ExternalApiError", Some(status_code), msg)

\* exceptions.py: IpAddressNotFoundError(ip_address, message)
IpAddressNotFoundError(ip, msg) == Exc("IpAddressNotFoundError", None, msg)

\* What a call did: returned a value or raised an exception.
Returned(v) == [raised |-> FALSE, exc |-> None, value |-> Some(v)]
Raised(e) == [raised |-> TRUE, exc |-> Some(e), value |-> None]

\* -------------------------------------------------- the databases' answers
\* geoip2.models.City, the attributes _parse_city_response reads. Degrees are
\* in units of 1/10000.
FullCityRecord ==
    [country_name |-> Some("United States"), iso_code |-> Some("US"),
     subdivisions |-> << [name |-> Some("California"), iso_code |-> Some("CA")] >>,
     city_name |-> Some("Mountain View"), postal_code |-> Some("94043"),
     latitude |-> Some(374056), longitude |-> Some(-1220775),
     time_zone |-> Some("America/Los_Angeles")]

\* a record of a range for which the database knows no country
NoCountryRecord ==
    [country_name |-> None, iso_code |-> None, subdivisions |-> <<>>,
     city_name |-> None, postal_code |-> None,
     latitude |-> None, longitude |-> None, time_zone |-> None]

CityRecords == {FullCityRecord, NoCountryRecord}

\* Reader.city(text): a record, AddressNotFoundError, or another exception
CityOutcome(kind, rec) == [kind |-> kind, rec |-> rec]

CityOutcomes ==
    {CityOutcome("record", Some(r)) : r \in CityRecords}
    \cup {CityOutcome("AddressNotFoundError", None), CityOutcome("Exception", None)}

\* reading from a reader after its close()
ClosedReaderOutcome == CityOutcome("Exception", None)

\* Reader.asn(text): a record (number, organization), AddressNotFoundError,
\* ValueError, or another exception (maxminddb.InvalidDatabaseError, TypeError)
AsnOutcome(kind, number, org) == [kind |-> kind, number |-> number, org |-> org]

AsnOutcomes ==
    {AsnOutcome("record", Some(15169), Some("Google LLC")),
     AsnOutcome("record", None, None),
     AsnOutcome("AddressNotFoundError", None, None),
     AsnOutcome("ValueError", None, None),
     AsnOutcome("Exception", None, None)}

\* no ASN query was made
NoAsnQuery == AsnOutcome("none", None, None)

\* Python truthiness of an optional string, of an optional number
Truthy(o) == o # None /\ Get(o) # ""
TruthyNumber(o) == o # None /\ Get(o) # 0

\* ------------------------------------------------------- response assembly
\* models.py: IpGeolocationResponse field constraints
ResponseValid(r) ==
    /\ Len(r.country_code) = COUNTRY_CODE_LENGTH
    /\ (r.latitude # None => Get(r.latitude) >= -900000 /\ Get(r.latitude) <= 900000)
    /\ (r.longitude # None => Get(r.longitude) >= -1800000 /\ Get(r.longitude) <= 1800000)

\* geolocation_service.py 81-88: the exception classes the ASN query's try
\* statement catches
AsnErrorCaught(kind) == kind \in {"AddressNotFoundError", "ValueError"}

\* the first subdivision in place of the most specific one
LeastSpecific(sub) == sub[1]

\* geolocation_service.py 103: subdivisions.most_specific, the last of the
\* record's subdivisions
MostSpecific(sub) == sub[Len(sub)]

\* the number without its prefix
AsnTextBare(n) == ToString(n)

\* geolocation_service.py 84: f"AS{autonomous_system_number}"
AsnText(n) == "AS" \o ToString(n)

\* isp taken from the ASN record's organization
IspFromOrganization(asnOut) == asnOut.org

\* geolocation_service.py 78: isp is initialised to None, and no statement
\* of _parse_city_response assigns it again, whatever the ASN query answers
Isp(asnOut) == None

\* geolocation_service.py 76-146. asnOpen: self._asn_reader is set; asnOut:
\* what Reader.asn does if it is called.
ParseCityResponse(rec, ip, asnOpen, asnOut) ==
    LET queried == asnOpen
        asnOk == queried /\ asnOut.kind = "record"
        asn_number == IF asnOk /\ TruthyNumber(asnOut.number)
                      THEN Some(AsnText(Get(asnOut.number))) ELSE None
        org == IF asnOk /\ Truthy(asnOut.org) THEN asnOut.org ELSE None
        isp == Isp(asnOut)
        sub == rec.subdivisions
        resp == [ip |-> ip,
                 country |-> IF Truthy(rec.country_name) THEN Get(rec.country_name)
                             ELSE "Unknown",
                 country_code |-> IF Truthy(rec.iso_code) THEN Get(rec.iso_code) ELSE "",
                 region |-> IF Len(sub) > 0 THEN MostSpecific(sub).name ELSE None,
                 region_code |-> IF Len(sub) > 0 THEN MostSpecific(sub).iso_code ELSE None,
                 city |-> IF Truthy(rec.city_name) THEN rec.city_name ELSE None,
                 postal_code |-> IF Truthy(rec.postal_code) THEN rec.postal_code ELSE None,
                 latitude |-> rec.latitude,
                 longitude |-> rec.longitude,
                 timezone |-> IF Truthy(rec.time_zone) THEN rec.time_zone ELSE None,
                 isp |-> isp, org |-> org, asn |-> asn_number]
    IN IF queried /\ asnOut.kind # "record" /\ ~AsnErrorCaught(asnOut.kind)
       THEN Raised(Exc(asnOut.kind, None, "ASN query failed"))
       ELSE IF ~ResponseValid(resp)
       THEN Raised(Exc("ValidationError", None, "1 validation error for IpGeolocationResponse"))
       ELSE Returned(resp)

\* ---------------------------------------------------------------- state
VARIABLES
    cityFile,     \* the file at city_db_path: "missing", "valid" or "corrupt"
    asnFile,      \* the file at asn_db_path
    city_reader,  \* GeolocationService._city_reader: None or Some(reader id)
    asn_reader,   \* GeolocationService._asn_reader
    cityLog,      \* per city reader this service opened: close() calls on it
    asnLog,       \* per ASN reader this service opened: close() calls on it
    closeCalls,   \* close() calls made on the service
    call,         \* the API call in progress: "none", "single" or "batch"
    ips,          \* the addresses of the call
    tasks,        \* one lookup task per address
    completed,    \* task indices, in the order the lookups finished
    ret,          \* what the last call returned or raised
    req,          \* the HTTP request being handled
    status,       \* the HTTP status of the response: None or Some(code)
    constructed,  \* GeolocationService() constructions made by the request
    vcall,        \* the last validate_ip_address call
    pcall,        \* the last _parse_city_response call made on its own
    firstAsnFile, \* history: the ASN file's state at the service's first
                  \* _ensure_readers call, None before it
    cityMissing   \* history: an _ensure_readers call of the service raised
                  \* for the missing city database file

vars == <<cityFile, asnFile, city_reader, asn_reader, cityLog, asnLog, closeCalls,
          call, ips, tasks, completed, ret, req, status, constructed, vcall, pcall,
          firstAsnFile, cityMissing>>

fsVars == <<cityFile, asnFile>>
serviceVars == <<city_reader, asn_reader, cityLog, asnLog>>
callVars == <<call, ips, tasks, completed, ret>>
httpVars == <<req, status, constructed>>
histVars == <<firstAsnFile, cityMissing>>

FileStates == {"missing", "valid", "corrupt"}

\* the addresses looked up: 8.8.8.8 and 192.168.1.1
Ip8888 == [v |-> 4, w |-> <<8, 8, 8, 8>>]
Ip19216811 == [v |-> 4, w |-> <<192, 168, 1, 1>>]
Addrs == {Ip8888, Ip19216811}

\* ------------------------------------------------------- _ensure_readers
\* geoip2.database.Reader(path) on a file that exists: opens it, or fails on a
\* file that is no MaxMind database
OpenFails(file) == file = "corrupt"

\* geolocation_service.py 44-49: the error for a missing city database
CityDatabaseMissing ==
    ExternalApiError("MaxMind City database not found", HTTP_503_SERVICE_UNAVAILABLE)

\* the error geoip2.database.Reader raises on a file it cannot parse
InvalidDatabaseError(which) ==
    Exc("InvalidDatabaseError", None, "Error opening database file: " \o which)

\* the test left out: a reader is opened at every call
NeedsOpenAlways(handle) == TRUE

\* geolocation_service.py 43, 51: `if self._city_reader is None`,
\* `if self._asn_reader is None`
NeedsOpen(handle) == handle = None

\* the ASN branch run although the city branch raised
GoesOn(raised) == FALSE

\* geolocation_service.py 43-50: the raise statement, and the exception of
\* Reader(path), leave _ensure_readers: the ASN branch below is not run
Leaves(raised) == raised # None

\* geolocation_service.py 41-61. The result: the service's fields afterwards,
\* the exception raised if any, and the path taken through the city branch.
EnsureReaders(cr, ar, cl, al, cf, af) ==
    LET cityPath == IF ~NeedsOpen(cr) THEN "open"
                    ELSE IF cf = "missing" THEN "missing"
                    ELSE IF OpenFails(cf) THEN "corrupt"
                    ELSE "opened"
        cr1 == IF cityPath = "opened" THEN Some(Len(cl) + 1) ELSE cr
        cl1 == IF cityPath = "opened" THEN Append(cl, 0) ELSE cl
        cityRaised == IF cityPath = "missing" THEN Some(CityDatabaseMissing)
                      ELSE IF cityPath = "corrupt" THEN Some(InvalidDatabaseError("city"))
                      ELSE None
        asnPath == IF Leaves(cityRaised) THEN "skipped"
                   ELSE IF ~NeedsOpen(ar) THEN "open"
                   ELSE IF af = "missing" THEN "missing"
                   ELSE IF OpenFails(af) THEN "corrupt"
                   ELSE "opened"
        ar1 == IF asnPath = "opened" THEN Some(Len(al) + 1) ELSE ar
        al1 == IF asnPath = "opened" THEN Append(al, 0) ELSE al
    IN [city_reader |-> cr1, asn_reader |-> ar1, cityLog |-> cl1, asnLog |-> al1,
        raised |-> IF cityRaised # None THEN cityRaised
                   ELSE IF asnPath = "corrupt" THEN Some(InvalidDatabaseError("asn"))
                   ELSE None,
        cityPath |-> cityPath, asnPath |-> asnPath]

\* ------------------------------------------------------------ get_geolocation
\* A lookup task: pc is "ready" (created), "city_wait" (awaiting the executor),
\* "city_done" (the executor has run the city query) or "done".
NewTask(ip) ==
    [ip |-> ip, pc |-> "ready", cityPath |-> "none", asnPath |-> "none",
     reader |-> None, cityOut |-> None, asnOpen |-> FALSE, asnOut |-> NoAsnQuery,
     out |-> None, val |-> None]

\* the try statement without its first clause, except AddressNotFoundError:
\* every failed city query is a database error
CityQueryErrorUntyped(kind, ip) ==
    ExternalApiError("Error querying geolocation database", HTTP_500_INTERNAL_SERVER_ERROR)

\* geolocation_service.py 172-180: what get_geolocation raises for a failed
\* city query
CityQueryError(kind, ip) ==
    IF kind = "AddressNotFoundError"
    THEN IpAddressNotFoundError(ip, "No geolocation data available for IP address: "
                                    \o TextStr(Str(ip)))
    ELSE ExternalApiError("Error querying geolocation database",
                          HTTP_500_INTERNAL_SERVER_ERROR)

\* the wrapper with `except Exception` as its first clause
ErrorTupleCatchAllFirst(e) == <<"Internal error", "Unexpected error: " \o e.msg>>

\* geolocation_service.py 216-237: a response as it is, an exception as an
\* (error_type, error_detail) pair. InvalidIpAddressError is imported from
\* exceptions.py, which defines no such class: nothing raises it.
ErrorTuple(e) ==
    IF e.type = "InvalidIpAddressError" THEN <<"Invalid IP address format", e.msg>>
    ELSE IF e.type = "IpAddressNotFoundError" THEN <<"IP address not found", e.msg>>
    ELSE IF e.type = "ExternalApiError" THEN <<"Database error", e.msg>>
    ELSE <<"Internal error", "Unexpected error: " \o e.msg>>

\* the wrapper without its last clause, except Exception: an exception of no
\* class of exceptions.py leaves the task
WithErrorHandlingTypedOnly(out) ==
    IF ~out.raised
    THEN [ok |-> TRUE, resp |-> out.value, err |-> None, escaped |-> None]
    ELSE IF Get(out.exc).type \in {"InvalidIpAddressError", "IpAddressNotFoundError",
                                   "ExternalApiError"}
    THEN [ok |-> FALSE, resp |-> None, err |-> Some(ErrorTuple(Get(out.exc))),
          escaped |-> None]
    ELSE [ok |-> FALSE, resp |-> None, err |-> None, escaped |-> out.exc]

\* escaped: an exception the wrapper let through (it catches Exception: none)
WithErrorHandling(out) ==
    IF out.raised
    THEN [ok |-> FALSE, resp |-> None, err |-> Some(ErrorTuple(Get(out.exc))),
          escaped |-> None]
    ELSE [ok |-> TRUE, resp |-> out.value, err |-> None, escaped |-> None]

\* a task ends with outcome out: in a batch the wrapper turns it into a value
Finish(t, out) ==
    [t EXCEPT !.pc = "done", !.out = Some(out),
              !.val = IF call = "batch" THEN Some(WithErrorHandling(out)) ELSE None]

\* The event loop runs the tasks it was given in the order of their creation,
\* each up to its first await, before it resumes any of them.
MayStart(i) == \A j \in 1..(i - 1) : tasks[j].pc # "ready"
AllStarted == \A j \in DOMAIN tasks : tasks[j].pc # "ready"

\* geolocation_service.py 163-171: _ensure_readers, then the city query is
\* handed to the executor with the reader bound at that moment
StartLookup(i) ==
    /\ i \in DOMAIN tasks
    /\ tasks[i].pc = "ready"
    /\ MayStart(i)
    /\ LET e == EnsureReaders(city_reader, asn_reader, cityLog, asnLog, cityFile, asnFile)
           t == [tasks[i] EXCEPT !.cityPath = e.cityPath, !.asnPath = e.asnPath]
       IN /\ city_reader' = e.city_reader
          /\ asn_reader' = e.asn_reader
          /\ cityLog' = e.cityLog
          /\ asnLog' = e.asnLog
          /\ cityMissing' = (cityMissing \/ e.cityPath = "missing")
          /\ IF e.raised # None
             THEN /\ tasks' = [tasks EXCEPT ![i] = Finish(t, Raised(Get(e.raised)))]
                  /\ completed' = Append(completed, i)
             ELSE /\ tasks' = [tasks EXCEPT ![i] =
                                  [t EXCEPT !.pc = "city_wait", !.reader = e.city_reader]]
                  /\ UNCHANGED completed
    /\ firstAsnFile' = IF firstAsnFile = None THEN Some(asnFile) ELSE firstAsnFile
    /\ UNCHANGED <<fsVars, closeCalls, call, ips, ret, httpVars, vcall, pcall>>

\* the executor thread runs self._city_reader.city(str(ip_address))
RunCityQuery(i) ==
    /\ i \in DOMAIN tasks
    /\ tasks[i].pc = "city_wait"
    /\ \E o \in CityOutcomes :
          LET got == IF cityLog[Get(tasks[i].reader)] > 0 THEN ClosedReaderOutcome ELSE o
          IN tasks' = [tasks EXCEPT ![i] = [@ EXCEPT !.pc = "city_done",
                                                     !.cityOut = Some(got)]]
    /\ UNCHANGED <<fsVars, serviceVars, closeCalls, call, ips, completed, ret,
                   httpVars, vcall, pcall, histVars>>

\* geolocation_service.py 172-181: the task resumes with the query's result
ResumeLookup(i) ==
    /\ i \in DOMAIN tasks
    /\ tasks[i].pc = "city_done"
    /\ AllStarted
    /\ LET t == tasks[i]
           c == Get(t.cityOut)
       IN IF c.kind # "record"
          THEN tasks' = [tasks EXCEPT ![i] = Finish(t, Raised(CityQueryError(c.kind, t.ip)))]
          ELSE \E a \in AsnOutcomes :
                  LET asnOpen == asn_reader # None
                      asnOut == IF asnOpen THEN a ELSE NoAsnQuery
                  IN tasks' = [tasks EXCEPT ![i] =
                        Finish([t EXCEPT !.asnOpen = asnOpen, !.asnOut = asnOut],
                               ParseCityResponse(Get(c.rec), t.ip, asnOpen, asnOut))]
    /\ completed' = Append(completed, i)
    /\ UNCHANGED <<fsVars, serviceVars, closeCalls, call, ips, ret, httpVars, vcall, pcall, histVars>>

\* ---------------------------------------------------------------- close
\* geolocation_service.py 239-246: close() on the reader a handle names
CloseReader(r, log) == IF r # None THEN [log EXCEPT ![Get(r)] = @ + 1] ELSE log

\* close() that closes the readers and keeps the handles
AfterCloseKeepsHandles ==
    /\ cityLog' = CloseReader(city_reader, cityLog)
    /\ asnLog' = CloseReader(asn_reader, asnLog)
    /\ UNCHANGED <<city_reader, asn_reader>>

\* the service's fields after close()
AfterClose ==
    /\ cityLog' = CloseReader(city_reader, cityLog)
    /\ asnLog' = CloseReader(asn_reader, asnLog)
    /\ city_reader' = None
    /\ asn_reader' = None

\* __aexit__ that returns without a call of close()
AsyncExitWithoutClose == UNCHANGED serviceVars

\* geolocation_service.py 252-254: __aexit__, whatever the body did
AsyncExit == AfterClose

\* no lookup is in flight
Idle == \A i \in DOMAIN tasks : tasks[i].pc = "done"

\* ------------------------------------------- calls on one service object
\* await service.get_geolocation(ip)
CallGetGeolocation(ip) ==
    /\ Idle
    /\ call' = "single"
    /\ ips' = <<ip>>
    /\ tasks' = <<NewTask(ip)>>
    /\ completed' = <<>>
    /\ ret' = None
    /\ UNCHANGED <<fsVars, serviceVars, closeCalls, httpVars, vcall, pcall, histVars>>

\* service.close()
Close ==
    /\ Idle
    /\ closeCalls < MaxCloses
    /\ closeCalls' = closeCalls + 1
    /\ AfterClose
    /\ UNCHANGED <<fsVars, callVars, httpVars, vcall, pcall, histVars>>

\* the database files are replaced, removed or installed behind the service
FsChange ==
    /\ \E f \in FileStates :
          \/ f # cityFile /\ cityFile' = f /\ UNCHANGED asnFile
          \/ f # asnFile /\ asnFile' = f /\ UNCHANGED cityFile
    /\ UNCHANGED <<serviceVars, closeCalls, callVars, httpVars, vcall, pcall, histVars>>

\* -------------------------------------------------------- the batch call
\* the values collected as the tasks complete (asyncio.as_completed)
GatherAsCompleted(ts, order) == [k \in DOMAIN ts |-> Get(ts[order[k]].val)]

\* asyncio.gather(*tasks): the tasks' values in the order of the tasks,
\* whatever the order the tasks completed in
Gather(ts, order) == [i \in DOMAIN ts |-> Get(ts[i].val)]

\* the entry put behind the entries of the later addresses
ListedLast(entry, later) == later \o <<entry>>

\* geolocation_service.py 203, 207: list.append in the order of the loop: an
\* address's entry stands before the entries of the addresses after it
Listed(entry, later) == <<entry>> \o later

\* geolocation_service.py 201-214: the loop over zip(ip_addresses, results)
RECURSIVE SplitResults(_, _)
SplitResults(addresses, values) ==
    IF Len(addresses) = 0 THEN [results |-> <<>>, errors |-> <<>>]
    ELSE LET rest == SplitResults(Tail(addresses), Tail(values))
             v == Head(values)
         IN IF v.ok
            THEN [rest EXCEPT !.results = Listed(Get(v.resp), @)]
            ELSE [rest EXCEPT !.errors =
                     Listed([ip |-> TextStr(Str(Head(addresses))),
                             error |-> Get(v.err)[1], detail |-> Get(v.err)[2]], @)]

\* geolocation_service.py 199: `await asyncio.gather(*tasks,
\* return_exceptions=False)` returns when every task has finished, and
\* raises, without waiting for the other tasks, as soon as an exception
\* leaves one of them (the awaiting handler resumes after every task has
\* run up to its first await)
GatherReturns(ts) ==
    \/ \A i \in DOMAIN ts : ts[i].pc = "done"
    \/ /\ \A i \in DOMAIN ts : ts[i].pc # "ready"
       /\ \E i \in DOMAIN ts : ts[i].val # None /\ Get(ts[i].val).escaped # None

\* geolocation_service.py 183-214, once gather returns: the first exception
\* that left a task is raised by the await; without one, every task has
\* finished and the values are split.
BatchGeolocation(addresses, ts, order) ==
    LET escaping == {k \in DOMAIN order : Get(ts[order[k]].val).escaped # None}
    IN IF escaping # {}
       THEN LET first == CHOOSE k \in escaping : \A j \in escaping : k <= j
            IN Raised(Get(Get(ts[order[first]].val).escaped))
       ELSE Returned(SplitResults(addresses, Gather(ts, order)))

\* ------------------------------------------------------------ validation
\* ip_validator.py 6-8: IpRequestInternal.model_validate, which raises
\* pydantic's ValidationError for a text that is no address
ValidateIpAddress(text) ==
    IF IsIpText(text) THEN Returned(ParseIp(text))
    ELSE Raised(Exc("ValidationError", None, "1 validation error for IpRequestInternal"))

\* the field without min_length
BatchLengthOkNoMinimum(n) == n <= MAX_BATCH_LENGTH

\* models.py 70-78: BatchIpRequest, a list of 1 to 100 addresses
BatchLengthOk(n) == n >= MIN_BATCH_LENGTH /\ n <= MAX_BATCH_LENGTH

BatchIpRequestOk(body) ==
    /\ BatchLengthOk(Len(body))
    /\ \A text \in Range(body) : IsIpText(text)

\* the validated ip_addresses of a body: each text as its address
ParsedBody(body) ==
    CHOOSE parsed \in {[i \in DOMAIN body |-> address[body[i]]] :
                         address \in {[text \in Range(body) |-> ParseIp(text)]}} : TRUE

\* ----------------------------------------------------- exception handlers
HTTPException(status_code, detail) == Exc("HTTPException", Some(status_code), detail)

\* main.py 128-137 and routes.py 71-76: the status for an ExternalApiError
ExternalApiStatus(e) ==
    IF e.status_code = Some(HTTP_503_SERVICE_UNAVAILABLE)
    THEN HTTP_503_SERVICE_UNAVAILABLE
    ELSE HTTP_500_INTERNAL_SERVER_ERROR

\* main.py 91-182 (and FastAPI's own handlers for HTTPException and
\* RequestValidationError): the status of the response to an exception that
\* leaves a route handler
HandlerStatus(e) ==
    IF e.type = "HTTPException" THEN Get(e.status_code)
    ELSE IF e.type \in {"RequestValidationError", "ValidationError"}
    THEN HTTP_422_UNPROCESSABLE_ENTITY
    ELSE IF e.type = "IpAddressNotFoundError" THEN HTTP_404_NOT_FOUND
    ELSE IF e.type = "ExternalApiError" THEN ExternalApiStatus(e)
    ELSE HTTP_500_INTERNAL_SERVER_ERROR

\* the status of the response to what a route handler did
ResponseStatus(out) ==
    IF out.raised THEN HandlerStatus(Get(out.exc)) ELSE HTTP_200_OK

\* routes.py 59-80: the try statement around service.get_geolocation
GetIpOutcome(out) ==
    IF ~out.raised THEN out
    ELSE LET e == Get(out.exc)
         IN IF e.type = "InvalidIpAddressError"
            THEN Raised(HTTPException(HTTP_400_BAD_REQUEST, e.msg))
            ELSE IF e.type = "IpAddressNotFoundError"
            THEN Raised(HTTPException(HTTP_404_NOT_FOUND, e.msg))
            ELSE IF e.type = "ExternalApiError"
            THEN Raised(HTTPException(ExternalApiStatus(e), e.msg))
            ELSE out

\* routes.py 102-110: the try statement around service.get_batch_geolocation
BatchIpOutcome(out) ==
    IF out.raised
    THEN Raised(HTTPException(HTTP_500_INTERNAL_SERVER_ERROR, "Internal server error"))
    ELSE out

\* ------------------------------------------------------------- requests
NoRequest == [route |-> "none", text |-> <<>>, body |-> <<>>, phase |-> "idle"]

\* a request arrives when none is being handled
NewRequest(route, text, body, phase) ==
    /\ req = NoRequest
    /\ req' = [route |-> route, text |-> text, body |-> body, phase |-> phase]

\* GeolocationService(): a new object, no reader open
ConstructService ==
    /\ city_reader' = None
    /\ asn_reader' = None
    /\ cityLog' = <<>>
    /\ asnLog' = <<>>
    /\ constructed' = 1
    /\ firstAsnFile' = None
    /\ cityMissing' = FALSE

\* routes.py 50-58: GET /ip/{text} up to the handler's first await
ReceiveGet(text) ==
    LET v == ValidateIpAddress(text)
    IN /\ NewRequest("GET", text, <<>>, IF v.raised THEN "done" ELSE "handling")
       /\ ret' = None
       /\ completed' = <<>>
       /\ IF v.raised
          THEN /\ status' = Some(ResponseStatus(v))
               /\ call' = "none"
               /\ ips' = <<>>
               /\ tasks' = <<>>
               /\ constructed' = 0
               /\ UNCHANGED <<serviceVars, histVars>>
          ELSE /\ status' = None
               /\ ConstructService
               /\ call' = "single"
               /\ ips' = <<Get(v.value)>>
               /\ tasks' = <<NewTask(Get(v.value))>>
       /\ UNCHANGED <<fsVars, closeCalls, vcall, pcall>>

\* routes.py 59-80 after the await, __aexit__, and the response
FinishGet ==
    /\ req.route = "GET"
    /\ req.phase = "handling"
    /\ tasks[1].pc = "done"
    /\ status' = Some(ResponseStatus(GetIpOutcome(Get(tasks[1].out))))
    /\ AsyncExit
    /\ req' = [req EXCEPT !.phase = "done"]
    /\ UNCHANGED <<fsVars, closeCalls, callVars, constructed, vcall, pcall, histVars>>

\* routes.py 92-101: POST /ip/batch; FastAPI validates the body as a
\* BatchIpRequest before it calls the handler
ReceivePost(body) ==
    LET ok == BatchIpRequestOk(body)
    IN /\ NewRequest("POST", <<>>, body, IF ok THEN "handling" ELSE "done")
       /\ ret' = None
       /\ completed' = <<>>
       /\ IF ~ok
          THEN /\ status' = Some(HandlerStatus(Exc("RequestValidationError", None,
                                                   "Validation error")))
               /\ call' = "none"
               /\ ips' = <<>>
               /\ tasks' = <<>>
               /\ constructed' = 0
               /\ UNCHANGED <<serviceVars, histVars>>
          ELSE /\ status' = None
               /\ ConstructService
               /\ call' = "batch"
               /\ ips' = ParsedBody(body)
               /\ tasks' = [i \in DOMAIN body |-> NewTask(ips'[i])]
       /\ UNCHANGED <<fsVars, closeCalls, vcall, pcall>>

\* routes.py 102-110 after the await, __aexit__, and the response
FinishPost ==
    /\ req.route = "POST"
    /\ req.phase = "handling"
    /\ GatherReturns(tasks)
    /\ LET out == BatchGeolocation(ips, tasks, completed)
       IN /\ ret' = Some(out)
          /\ status' = Some(ResponseStatus(BatchIpOutcome(out)))
    /\ AsyncExit
    /\ req' = [req EXCEPT !.phase = "done"]
    /\ UNCHANGED <<fsVars, closeCalls, call, ips, tasks, completed, constructed, vcall, pcall, histVars>>

\* the response has been sent: the request and its objects are gone
EndRequest ==
    /\ req.phase = "done"
    /\ req' = NoRequest
    /\ status' = None
    /\ constructed' = 0
    /\ call' = "none"
    /\ ips' = <<>>
    /\ tasks' = <<>>
    /\ completed' = <<>>
    /\ ret' = None
    /\ city_reader' = None
    /\ asn_reader' = None
    /\ cityLog' = <<>>
    /\ asnLog' = <<>>
    /\ firstAsnFile' = None
    /\ cityMissing' = FALSE
    /\ UNCHANGED <<fsVars, closeCalls, vcall, pcall>>

\* one call of _parse_city_response on a record, on its own
CallParseCityResponse(rec, ip, asnOpen, asnOut) ==
    /\ pcall = None
    /\ pcall' = Some([rec |-> rec, ip |-> ip, asnOpen |-> asnOpen, asnOut |-> asnOut,
                      out |-> ParseCityResponse(rec, ip, asnOpen, asnOut)])
    /\ UNCHANGED <<fsVars, serviceVars, closeCalls, callVars, httpVars, vcall,
                   histVars>>

\* a call of validate_ip_address
CallValidateIpAddress(text) ==
    /\ vcall' = Some([text |-> text, out |-> ValidateIpAddress(text)])
    /\ UNCHANGED <<fsVars, serviceVars, closeCalls, callVars, httpVars, pcall, histVars>>

\* ---------------------------------------------------------------- inputs
Text8888 == <<"8", ".", "8", ".", "8", ".", "8">>
Text19216811 == <<"1", "9", "2", ".", "1", "6", "8", ".", "1", ".", "1">>
TextGoogleV6 == <<"2", "0", "0", "1", ":", "4", "8", "6", "0", ":", "4", "8", "6", "0",
                  ":", ":", "8", "8", "8", "8">>
TextInvalidIp == <<"i", "n", "v", "a", "l", "i", "d", "-", "i", "p">>
Text999 == <<"9", "9", "9", ".", "9", "9", "9", ".", "9", "9", "9", ".", "9", "9", "9">>
TextFiveOctets == <<"1", ".", "2", ".", "3", ".", "4", ".", "5">>
TextBadHextet == <<"g", "g", "g", "g", ":", ":", "1">>

SampleTexts == {Text8888, Text19216811, TextGoogleV6, TextInvalidIp, Text999,
                TextFiveOctets, TextBadHextet, <<>>}

TextAlphabet == {"1", ".", ":", "g"}

\* texts over a set of characters, up to a length
TextsUpTo(chars, n) == UNION {[1..k -> chars] : k \in 0..n}

ValidatorTexts == SampleTexts \cup TextsUpTo(TextAlphabet, MaxTextLen)

\* the path parameters of GET /ip/{text}
RouteTexts == {Text8888, Text19216811, TextInvalidIp, Text999}

\* the bodies of POST /ip/batch that are dispatched
BodyTexts == {Text8888, Text19216811, TextInvalidIp}
RouteBodies == TextsUpTo(BodyTexts, MaxBatch)

\* bodies around the length limits: lists of one text repeated
LongBodies ==
    {[i \in 1..n |-> t] : n \in 0..(MAX_BATCH_LENGTH + MaxOverLength), t \in BodyTexts}

\* the values of an optional text of a record: absent, empty, or a value
OptionalTexts(v) == {None, Some(""), Some(v)}

\* subdivisions: a named one, one with an empty name, one without names
SubdivisionRecords ==
    {[name |-> Some("California"), iso_code |-> Some("CA")],
     [name |-> Some(""), iso_code |-> Some("")],
     [name |-> None, iso_code |-> None]}

\* the records given to _parse_city_response: every combination of present,
\* absent and empty attributes, with up to MaxSubdivisions subdivisions
ParseRecords ==
    {[country_name |-> cn, iso_code |-> ic, subdivisions |-> sub, city_name |-> ci,
      postal_code |-> po, latitude |-> la, longitude |-> lo, time_zone |-> tz] :
        cn \in {None, Some("United States")},
        ic \in {None, Some("US")},
        sub \in TextsUpTo(SubdivisionRecords, MaxSubdivisions),
        ci \in OptionalTexts("Mountain View"),
        po \in OptionalTexts("94043"),
        la \in {None, Some(0), Some(374056)},
        lo \in {None, Some(0), Some(-1220775)},
        tz \in OptionalTexts("America/Los_Angeles")}

\* what Reader.asn answers: records with and without number and
\* organization, and the errors
ParseAsnOutcomes ==
    AsnOutcomes
    \cup {AsnOutcome("record", n, o) : n \in {None, Some(15169), Some(13335)},
                                      o \in {None, Some(""), Some("Google LLC")}}

\* ------------------------------------------------------- specifications
Init ==
    /\ cityFile \in FileStates
    /\ asnFile \in FileStates
    /\ city_reader = None
    /\ asn_reader = None
    /\ cityLog = <<>>
    /\ asnLog = <<>>
    /\ closeCalls = 0
    /\ call = "none"
    /\ ips = <<>>
    /\ tasks = <<>>
    /\ completed = <<>>
    /\ ret = None
    /\ req = NoRequest
    /\ status = None
    /\ constructed = 0
    /\ vcall = None
    /\ pcall = None
    /\ firstAsnFile = None
    /\ cityMissing = FALSE

\* one service object, used through its API
Next ==
    \/ \E ip \in Addrs : CallGetGeolocation(ip)
    \/ \E i \in DOMAIN tasks : StartLookup(i)
    \/ \E i \in DOMAIN tasks : RunCityQuery(i)
    \/ \E i \in DOMAIN tasks : ResumeLookup(i)
    \/ Close
    \/ FsChange

Spec == Init /\ [][Next]_vars

\* the HTTP application
NextRoutes ==
    \/ \E text \in RouteTexts : ReceiveGet(text)
    \/ \E body \in RouteBodies : ReceivePost(body)
    \/ \E i \in DOMAIN tasks : StartLookup(i)
    \/ \E i \in DOMAIN tasks : RunCityQuery(i)
    \/ \E i \in DOMAIN tasks : ResumeLookup(i)
    \/ FinishGet
    \/ FinishPost
    \/ EndRequest

SpecRoutes == Init /\ [][NextRoutes]_vars

\* the validator, called on its own
NextValidator == \E text \in ValidatorTexts : CallValidateIpAddress(text)

SpecValidator == Init /\ [][NextValidator]_vars

\* _parse_city_response on its own: every record without ASN reader, the
\* records of CityRecords with every answer of the ASN reader
NextParse ==
    \/ /\ pcall = None
       /\ \E rec \in ParseRecords, ip \in Addrs :
             CallParseCityResponse(rec, ip, FALSE, NoAsnQuery)
    \/ /\ pcall = None
       /\ \E rec \in CityRecords, ip \in Addrs, a \in ParseAsnOutcomes :
             CallParseCityResponse(rec, ip, TRUE, a)

\* the files play no part in it
InitParse == Init /\ cityFile = "valid" /\ asnFile = "valid"

SpecParse == InitParse /\ [][NextParse]_vars

\* the validation of the body of POST /ip/batch, up to the dispatch of the
\* lookups
NextBatchRequest == \E body \in LongBodies : ReceivePost(body)

SpecBatchRequest == Init /\ [][NextBatchRequest]_vars

\* ================================================================ claims
\* a POST /ip/batch request has been answered after its batch call was made
BatchAnswered == req.route = "POST" /\ req.phase = "done" /\ call = "batch"

\* the lookup of task i ended with an exception, with a response
LookupFailed(i) == Get(tasks[i].out).raised
LookupSucceeded(i) == ~Get(tasks[i].out).raised

\* the indices of the tasks, ascending, that satisfy a condition
TaskIndices == [i \in DOMAIN tasks |-> i]
FailedIndices == SelectSeq(TaskIndices, LookupFailed)
SucceededIndices == SelectSeq(TaskIndices, LookupSucceeded)

\* the exception classes get_geolocation raises by design
TypedErrors == {"InvalidIpAddressError", "IpAddressNotFoundError", "ExternalApiError"}

\* C1: get_batch_geolocation returns normally with a (results, errors) pair
\* in which every input address has exactly one entry: a response in results
\* if its lookup succeeded, an entry in errors otherwise, whatever each lookup
\* did (success, not found, database unavailable, an unexpected exception).
BatchReportsEveryAddress ==
    BatchAnswered =>
        /\ ret # None
        /\ ~Get(ret).raised
        /\ LET pair == Get(Get(ret).value)
           IN /\ Len(pair.results) + Len(pair.errors) = Len(ips)
              /\ Len(pair.results) = Len(SucceededIndices)
              /\ Len(pair.errors) = Len(FailedIndices)

\* a batch of two: the first lookup ended with an unexpected exception, the
\* second with a response
BatchReportsEveryAddressWitness ==
    /\ BatchAnswered
    /\ Len(tasks) = 2
    /\ LookupFailed(1)
    /\ Get(Get(tasks[1].out).exc).type \notin TypedErrors
    /\ LookupSucceeded(2)
    /\ ret # None
    /\ ~Get(ret).raised
    /\ Len(Get(Get(ret).value).results) = 1
    /\ Len(Get(Get(ret).value).errors) = 1

\* C2: whatever order the lookups of a batch complete in, the k-th entry of
\* errors names the address of the k-th failed lookup and carries its error,
\* and the k-th response of results is the one the k-th successful lookup
\* produced, for its own address.
BatchAttributesByAddress ==
    (BatchAnswered /\ ret # None /\ ~Get(ret).raised) =>
        LET pair == Get(Get(ret).value)
            failed == FailedIndices
            succeeded == SucceededIndices
        IN /\ Len(pair.errors) = Len(failed)
           /\ \A k \in DOMAIN failed :
                 LET e == ErrorTuple(Get(Get(tasks[failed[k]].out).exc))
                 IN pair.errors[k] = [ip |-> TextStr(Str(ips[failed[k]])),
                                      error |-> e[1], detail |-> e[2]]
           /\ Len(pair.results) = Len(succeeded)
           /\ \A k \in DOMAIN succeeded :
                 /\ pair.results[k] = Get(Get(tasks[succeeded[k]].out).value)
                 /\ pair.results[k].ip = ips[succeeded[k]]

\* 8.8.8.8 and 192.168.1.1: the second lookup completed first, with a
\* response; the first failed
BatchAttributesByAddressWitness ==
    /\ BatchAnswered
    /\ ips = <<Ip8888, Ip19216811>>
    /\ completed = <<2, 1>>
    /\ LookupFailed(1)
    /\ LookupSucceeded(2)
    /\ ret # None
    /\ ~Get(ret).raised
    /\ Get(Get(ret).value).errors[1].ip = "8.8.8.8"
    /\ Get(Get(ret).value).results[1].ip = Ip19216811

\* the lookup of task i is over, and its city query returned a record
LookupDone(i) == tasks[i].pc = "done"
CityQueried(i) == tasks[i].cityOut # None
CityRecordFound(i) == CityQueried(i) /\ Get(tasks[i].cityOut).kind = "record"

\* the exception a failed lookup raised
LookupError(i) == Get(Get(tasks[i].out).exc)

\* C3: when the city query succeeds, no error of the ASN query makes
\* get_geolocation fail: a lookup that returns a response without ASN
\* enrichment returns one however the ASN query ends.
AsnFailureNeverFailsLookup ==
    \A i \in DOMAIN tasks :
        (/\ LookupDone(i)
         /\ CityRecordFound(i)
         /\ ~ParseCityResponse(Get(Get(tasks[i].cityOut).rec), tasks[i].ip,
                               FALSE, NoAsnQuery).raised)
        => LookupSucceeded(i)

\* C4: when the city query succeeds and the ASN database is not open, or has
\* no entry for the address, get_geolocation returns a response in which isp,
\* org and asn are None.
NoAsnDataGivesResponseWithoutAsn ==
    \A i \in DOMAIN tasks :
        (/\ LookupDone(i)
         /\ CityRecordFound(i)
         /\ (~tasks[i].asnOpen \/ tasks[i].asnOut.kind = "AddressNotFoundError"))
        => /\ LookupSucceeded(i)
           /\ LET resp == Get(Get(tasks[i].out).value)
              IN resp.isp = None /\ resp.org = None /\ resp.asn = None

\* C5: a lookup fails with IpAddressNotFoundError exactly when its city query
\* found no entry for the address, and with ExternalApiError of status_code
\* 500 when its city query failed in any other way.
CityQueryFailuresAreTyped ==
    \A i \in DOMAIN tasks :
        LookupDone(i) =>
            /\ (LookupFailed(i) /\ LookupError(i).type = "IpAddressNotFoundError")
               <=> (CityQueried(i) /\ Get(tasks[i].cityOut).kind = "AddressNotFoundError")
            /\ (CityQueried(i) /\ Get(tasks[i].cityOut).kind = "Exception")
               => /\ LookupFailed(i)
                  /\ LookupError(i).type = "ExternalApiError"
                  /\ LookupError(i).status_code = Some(500)

\* 192.168.1.1 is looked up with the city reader open and has no entry
CityQueryFailuresAreTypedWitness ==
    /\ call = "single"
    /\ Len(tasks) = 1
    /\ LookupDone(1)
    /\ tasks[1].ip = Ip19216811
    /\ tasks[1].cityPath \in {"open", "opened"}
    /\ CityQueried(1)
    /\ Get(tasks[1].cityOut).kind = "AddressNotFoundError"
    /\ LookupFailed(1)
    /\ LookupError(1).type = "IpAddressNotFoundError"

\* C6: a lookup that finds the city reader not open and the city database
\* file missing or unparseable fails with ExternalApiError of status_code 503.
CityDatabaseUnusableGives503 ==
    \A i \in DOMAIN tasks :
        (LookupDone(i) /\ tasks[i].cityPath \in {"missing", "corrupt"})
        => /\ LookupFailed(i)
           /\ LookupError(i).type = "ExternalApiError"
           /\ LookupError(i).status_code = Some(503)

\* a GET /ip/{text} request has been answered
GetAnswered == req.route = "GET" /\ req.phase = "done"

\* C7: GET /ip/{address} with a valid address answers 200 for a response, 404
\* for IpAddressNotFoundError, 503 for ExternalApiError with status_code 503,
\* 500 for ExternalApiError with another status_code and 500 for every other
\* exception of the lookup.
GetStatusFollowsLookupOutcome ==
    (GetAnswered /\ call = "single") =>
        status = Some(IF LookupSucceeded(1) THEN 200
                      ELSE IF LookupError(1).type = "IpAddressNotFoundError" THEN 404
                      ELSE IF LookupError(1).type = "ExternalApiError"
                      THEN (IF LookupError(1).status_code = Some(503) THEN 503 ELSE 500)
                      ELSE 500)

\* C8: GET /ip/{text} with a text that is no IPv4 or IPv6 literal answers 400.
GetInvalidTextAnswers400 ==
    (GetAnswered /\ ~IsIpText(req.text)) => status = Some(400)

\* C9: validate_ip_address raises InvalidIpAddressError, and returns nothing,
\* for every text that is no IPv4 or IPv6 literal.
ValidatorRaisesInvalidIpAddressError ==
    (vcall # None /\ ~IsIpText(Get(vcall).text))
    => /\ Get(vcall).out.raised
       /\ Get(Get(vcall).out.exc).type = "InvalidIpAddressError"

\* C10: POST /ip/batch with a list of 0 or of more than 100 items is answered
\* 422 with no service constructed and no lookup task created; a list of 1 to
\* 100 valid addresses passes validation and its lookups are dispatched.
BatchLengthValidatedFirst ==
    req.route = "POST" =>
        /\ (Len(req.body) = 0 \/ Len(req.body) > 100)
           => /\ req.phase = "done"
              /\ status = Some(422)
              /\ constructed = 0
              /\ tasks = <<>>
              /\ call = "none"
              /\ cityLog = <<>> /\ asnLog = <<>>
        /\ (Len(req.body) \in 1..100 /\ \A k \in DOMAIN req.body : IsIpText(req.body[k]))
           => /\ req.phase = "handling"
              /\ status = None
              /\ constructed = 1
              /\ Len(tasks) = Len(req.body)
              /\ \A k \in DOMAIN tasks : tasks[k].ip = ParseIp(req.body[k])

\* a list of 101 valid addresses has been rejected
BatchLengthValidatedFirstWitness ==
    /\ req.route = "POST"
    /\ Len(req.body) = 101
    /\ \A k \in DOMAIN req.body : req.body[k] = Text8888
    /\ req.phase = "done"
    /\ status = Some(422)
    /\ tasks = <<>>

\* a reader the service holds has not been closed; every other reader the
\* service opened has been closed exactly once
ReadersClosedOnce ==
    /\ \A r \in DOMAIN cityLog : cityLog[r] = IF city_reader = Some(r) THEN 0 ELSE 1
    /\ \A r \in DOMAIN asnLog : asnLog[r] = IF asn_reader = Some(r) THEN 0 ELSE 1

\* a step that is a call of close() on the service
CloseStep == closeCalls' = closeCalls + 1

ParseReturned == pcall # None /\ ~Get(pcall).out.raised
ParsedRecord == Get(pcall).rec
ParsedResponse == Get(Get(pcall).out.value)

\* an optional value a record has, and has not empty
Has(o) == o # None /\ o # Some("")

\* C13: the response carries the queried address and the record's values:
\* country name and ISO code, the name and code of the last subdivision,
\* city, postal code and timezone where the record has them, and latitude and
\* longitude each as the record has it, whatever the other is.
ResponseCarriesRecordValues ==
    ParseReturned =>
        LET rec == ParsedRecord
            resp == ParsedResponse
            sub == rec.subdivisions
        IN /\ resp.ip = Get(pcall).ip
           /\ Has(rec.country_name) => resp.country = Get(rec.country_name)
           /\ Has(rec.iso_code) => resp.country_code = Get(rec.iso_code)
           /\ Len(sub) > 0 => /\ resp.region = sub[Len(sub)].name
                              /\ resp.region_code = sub[Len(sub)].iso_code
           /\ Has(rec.city_name) => resp.city = rec.city_name
           /\ Has(rec.postal_code) => resp.postal_code = rec.postal_code
           /\ Has(rec.time_zone) => resp.timezone = rec.time_zone
           /\ resp.latitude = rec.latitude
           /\ resp.longitude = rec.longitude

\* a record with two different subdivisions, California the last, a latitude
\* and no longitude
ResponseCarriesRecordValuesWitness ==
    /\ ParseReturned
    /\ Len(ParsedRecord.subdivisions) = 2
    /\ ParsedRecord.subdivisions[1].name = None
    /\ ParsedRecord.subdivisions[2].name = Some("California")
    /\ ParsedRecord.latitude = Some(374056)
    /\ ParsedRecord.longitude = None
    /\ ParsedResponse.region = Some("California")
    /\ ParsedResponse.region_code = Some("CA")
    /\ ParsedResponse.latitude = Some(374056)
    /\ ParsedResponse.longitude = None

\* the ASN reader was asked and answered with a record
AsnAnswered ==
    ParseReturned /\ Get(pcall).asnOpen /\ Get(pcall).asnOut.kind = "record"

\* C14: for system number n and organization o the response has asn "AS"
\* followed by the decimal digits of n (15169 gives "AS15169") and org o;
\* without a number asn is None.
AsnIsPrefixedNumber ==
    AsnAnswered =>
        LET a == Get(pcall).asnOut
            resp == ParsedResponse
        IN /\ a.number # None
              => /\ resp.asn = Some("AS" \o TextStr(NatText(Get(a.number), 10)))
                 /\ Get(a.number) = 15169 => resp.asn = Some("AS15169")
           /\ a.number = None => resp.asn = None
           /\ Has(a.org) => resp.org = a.org

\* 15169 and "Google LLC"
AsnIsPrefixedNumberWitness ==
    /\ AsnAnswered
    /\ Get(pcall).asnOut.number = Some(15169)
    /\ Get(pcall).asnOut.org = Some("Google LLC")
    /\ ParsedResponse.asn = Some("AS15169")
    /\ ParsedResponse.org = Some("Google LLC")

\* C15: for a record with neither country name nor ISO code the call returns
\* a response with country "Unknown" and country_code "".
NoCountryGivesUnknown ==
    (pcall # None /\ ParsedRecord.country_name = None /\ ParsedRecord.iso_code = None
     /\ ~Get(pcall).asnOpen)
    => /\ ParseReturned
       /\ ParsedResponse.country = "Unknown"
       /\ ParsedResponse.country_code = ""

\* C20: in a response every optional field whose value the record (or the
\* ASN answer) has not, or has empty, is None.
AbsentFieldsAreNone ==
    ParseReturned =>
        LET rec == ParsedRecord
            resp == ParsedResponse
            sub == rec.subdivisions
            a == Get(pcall).asnOut
        IN /\ (Len(sub) = 0 \/ ~Has(sub[Len(sub)].name)) => resp.region = None
           /\ (Len(sub) = 0 \/ ~Has(sub[Len(sub)].iso_code)) => resp.region_code = None
           /\ ~Has(rec.city_name) => resp.city = None
           /\ ~Has(rec.postal_code) => resp.postal_code = None
           /\ rec.latitude = None => resp.latitude = None
           /\ rec.longitude = None => resp.longitude = None
           /\ ~Has(rec.time_zone) => resp.timezone = None
           /\ resp.isp = None
           /\ (a.kind # "record" \/ ~Has(a.org)) => resp.org = None
           /\ (a.kind # "record" \/ a.number = None) => resp.asn = None

\* C16: a service whose first _ensure_readers call found the ASN database
\* file missing never opens the ASN database later, whatever becomes of the
\* file.
MissingAsnIsNotRetried ==
    firstAsnFile = Some("missing") => asnLog = <<>>

\* C17: handling a request opens no reader of its own: the readers are those
\* opened once for the process.
RequestOpensNoReader ==
    req.phase \in {"handling", "done"} => (cityLog = <<>> /\ asnLog = <<>>)

\* a lookup of the request is at its city query
AtCityQuery(i) == tasks[i].pc \in {"city_wait", "city_done"}

\* C18: while the lookups of a request run on its fresh service, the city
\* database has been opened at most once and the ASN database at most once,
\* and a lookup at its city query uses the one open city reader, with the
\* ASN reader open too unless its file is missing.
ReadersOpenedOncePerService ==
    req.phase = "handling" =>
        /\ Len(cityLog) <= 1
        /\ Len(asnLog) <= 1
        /\ \A i \in DOMAIN tasks :
              AtCityQuery(i) =>
                  /\ city_reader # None
                  /\ tasks[i].reader = city_reader
                  /\ cityLog[Get(tasks[i].reader)] = 0
                  /\ (asn_reader # None \/ asnFile = "missing")

\* two lookups of a batch await their city queries: the first opened both
\* readers, the second found them open
ReadersOpenedOncePerServiceWitness ==
    /\ req.phase = "handling"
    /\ call = "batch"
    /\ Len(tasks) = 2
    /\ AtCityQuery(1)
    /\ AtCityQuery(2)
    /\ tasks[1].cityPath = "opened"
    /\ tasks[1].asnPath = "opened"
    /\ tasks[2].cityPath = "open"
    /\ tasks[2].asnPath = "open"
    /\ cityLog = <<0>>
    /\ asnLog = <<0>>

\* the error kinds of a failure entry
ErrorKinds ==
    {"Invalid IP address format", "IP address not found", "Database error",
     "Internal error"}

AsnQueryIssued(i) ==
    /\ i \in DOMAIN tasks
    /\ i \in DOMAIN tasks'
    /\ tasks[i].pc = "city_done"
    /\ tasks[i].asnOut = NoAsnQuery
    /\ tasks'[i].asnOut # NoAsnQuery

\* C21: the ASN query is a suspension point like the city query: the step
\* that issues a task's ASN query leaves the task suspended, its lookup not
\* yet finished, so that the other tasks of the batch can run while the
\* query is in flight.
AsnQuerySuspendsTask ==
    [][\A i \in 1..MaxBatch : AsnQueryIssued(i) => tasks'[i].pc # "done"]_vars

BatchKeepsInputOrder ==
    (BatchAnswered /\ ret # None /\ ~Get(ret).raised) =>
        LET pair == Get(Get(ret).value)
        IN /\ [k \in DOMAIN pair.results |-> pair.results[k].ip]
                = [k \in DOMAIN SucceededIndices |-> ips[SucceededIndices[k]]]
           /\ [k \in DOMAIN pair.errors |-> pair.errors[k].ip]
                = [k \in DOMAIN FailedIndices |-> TextStr(Str(ips[FailedIndices[k]]))]

\* 8.8.8.8 and 192.168.1.1 both succeeded, 192.168.1.1 first: results has
\* 8.8.8.8 first
BatchKeepsInputOrderWitness ==
    /\ BatchAnswered
    /\ ips = <<Ip8888, Ip19216811>>
    /\ completed = <<2, 1>>
    /\ LookupSucceeded(1)
    /\ LookupSucceeded(2)
    /\ ret # None
    /\ ~Get(ret).raised
    /\ Len(Get(Get(ret).value).results) = 2
    /\ Get(Get(ret).value).results[1].ip = Ip8888
    /\ Get(Get(ret).value).results[2].ip = Ip19216811

\* the step in which task i runs _ensure_readers
EnsureStep(i) ==
    /\ i \in DOMAIN tasks
    /\ i \in DOMAIN tasks'
    /\ tasks[i].pc = "ready"
    /\ tasks'[i].pc # "ready"

\* C24: an _ensure_readers call that finds no reader open and the city
\* database file missing leaves the service as it was: both handles unset,
\* no reader opened (the ASN database is not opened either), and the lookup
\* ends with the error without a query. Nothing of the failure is kept: an
\* _ensure_readers call of a later lookup that finds the city file in place
\* opens it, and the lookup goes on to its city query on the open reader.
MissingCityFileLeavesServiceUnchanged ==
    [][\A i \in 1..MaxBatch :
          (EnsureStep(i) /\ city_reader = None) =>
              /\ cityFile = "missing" =>
                    /\ UNCHANGED serviceVars
                    /\ city_reader' = None
                    /\ asn_reader' = None
                    /\ tasks'[i].pc = "done"
                    /\ tasks'[i].out = Some(Raised(CityDatabaseMissing))
                    /\ tasks'[i].cityOut = None
                    /\ tasks'[i].asnOut = NoAsnQuery
              /\ (cityFile = "valid" /\ asnFile # "corrupt") =>
                    /\ city_reader' # None
                    /\ cityLog' = Append(cityLog, 0)
                    /\ tasks'[i].pc = "city_wait"
                    /\ tasks'[i].reader = city_reader'
      ]_vars

\* a lookup failed for the missing city file; the file was then installed,
\* and a later lookup on the same service opened the readers and returned a
\* response
MissingCityFileLeavesServiceUnchangedWitness ==
    /\ cityMissing
    /\ call = "single"
    /\ LookupDone(1)
    /\ tasks[1].cityPath = "opened"
    /\ LookupSucceeded(1)
    /\ cityLog = <<0>>

\* the close() calls made on the readers of a log
RECURSIVE Closes(_)
Closes(log) == IF log = <<>> THEN 0 ELSE Head(log) + Closes(Tail(log))

\* C25: close() is not terminal. In every sequence of lookups and closes on
\* one service, a lookup at its city query holds a reader that is open (the
\* one a lookup after close() opened anew, as the first lookup of a fresh
\* service does), and while the service holds a city reader the city
\* database has been opened once more than it has been closed.
LookupAfterCloseReopens ==
    /\ \A i \in DOMAIN tasks :
          AtCityQuery(i) =>
              /\ tasks[i].reader # None
              /\ tasks[i].reader = city_reader
              /\ cityLog[Get(tasks[i].reader)] = 0
              /\ tasks[i].cityPath = "opened" => Get(tasks[i].reader) = Len(cityLog)
    /\ city_reader # None => Len(cityLog) = Closes(cityLog) + 1

\* after a lookup and close(), a second lookup opened the readers again and
\* returned a response from the new reader
LookupAfterCloseReopensWitness ==
    /\ closeCalls = 1
    /\ cityLog = <<1, 0>>
    /\ city_reader = Some(2)
    /\ call = "single"
    /\ LookupDone(1)
    /\ tasks[1].cityPath = "opened"
    /\ tasks[1].reader = Some(2)
    /\ LookupSucceeded(1)

\* a reader of the request's service has been closed
SomeReaderClosed ==
    \/ \E r \in DOMAIN cityLog : cityLog[r] > 0
    \/ \E r \in DOMAIN asnLog : asnLog[r] > 0

\* C26: in the route handlers the service of a request is closed only when
\* every lookup the request dispatched has finished, its city query and its
\* ASN query made: no lookup is at its city query, or still to resume for
\* its ASN query, on a reader that has been closed.
ServiceClosedAfterEveryLookup ==
    /\ SomeReaderClosed => \A i \in DOMAIN tasks : LookupDone(i)
    /\ \A i \in DOMAIN tasks :
          ~LookupDone(i) =>
              /\ \A r \in DOMAIN cityLog : cityLog[r] = 0
              /\ \A r \in DOMAIN asnLog : asnLog[r] = 0
    /\ req.phase = "done" => \A i \in DOMAIN tasks : LookupDone(i)

\* a batch of two has been answered and its service closed: both lookups
\* had made their city query and their ASN query, the second one first
ServiceClosedAfterEveryLookupWitness ==
    /\ BatchAnswered
    /\ Len(tasks) = 2
    /\ completed = <<2, 1>>
    /\ \A i \in {1, 2} : CityRecordFound(i) /\ tasks[i].asnOut.kind # "none"
    /\ cityLog = <<1>>
    /\ asnLog = <<1>>
    /\ city_reader = None

====
